---- MODULE Spec2Model ----
(***************************************************************************)
(* Sentinel Mesh - smart contract engine (src/core/contracts.py).          *)
(*                                                                         *)
(* ContractEngine holds a list of contracts, the history of executed       *)
(* actions, a blocklist and a rate-limit map.  evaluate() walks the        *)
(* contracts in list order and executes every enabled, off-cooldown,       *)
(* matching one.                                                           *)
(*                                                                         *)
(* Units: time is in whole seconds; confidence and threshold are in units  *)
(* of 1e-5 (0.15 is 15000), so that round(confidence, 4) is a real         *)
(* rounding.  Strings compared by substring are sequences of characters.   *)
(***************************************************************************)
EXTENDS Integers, Sequences, FiniteSets, TLC

VARIABLES
    contracts,       \* self.contracts: sequence of Contract records
    action_history,  \* self.action_history: sequence of ExecutedAction records
    blocked_ips,     \* self.blocked_ips: set of source ips
    rate_limited,    \* self.rate_limited: function source ip -> limit_until
    clock,           \* the value time.time() returns now
    pc,              \* per thread: position inside evaluate()
    call,            \* per thread: arguments and current_time of its evaluate() call
    idx,             \* per thread: index of `contract` in the for loop
    executed,        \* per thread: the local list `executed` (the value returned)
    action,          \* per thread: the local `action` / `details` under construction
    status           \* the dict the last get_status() call returned

vars == <<contracts, action_history, blocked_ips, rate_limited, clock,
          pc, call, idx, executed, action, status>>

engine == <<contracts, action_history, blocked_ips, rate_limited>>

(***************************************************************************)
(* Bounds of the model.                                                    *)
(***************************************************************************)
MaxHistory == 2     \* evaluate() calls that would make the history longer are left out
MaxElapsed == 2     \* seconds the clock may advance after construction
StartTime  == 10    \* the clock at construction
MaxRecorded == 6    \* as MaxHistory, for the runs that read the status

Threads == {1, 2}
MainThread == 1

(***************************************************************************)
(* Program constants.                                                      *)
(***************************************************************************)
RateLimitSeconds == 300
RecentActions == 5

(***************************************************************************)
(* Inputs.                                                                 *)
(***************************************************************************)
ANOMALY == <<"A","N","O","M","A","L","Y">>
AI_ANOMALY_DETECTED ==
    <<"A","I","_","A","N","O","M","A","L","Y","_","D","E","T","E","C","T","E","D">>
ai_anomaly == <<"a","i","_","a","n","o","m","a","l","y">>

Event(alert_type, confidence, source_ip) ==
    [alert_type |-> alert_type, confidence |-> confidence, source_ip |-> source_ip]

\* The alerts submitted: above every threshold, equal to the 0.15 threshold,
\* below the 0.05 threshold, and one whose type lacks "ANOMALY".
Events ==
    { Event(AI_ANOMALY_DETECTED, 20004, "10.0.0.5"),
      Event(AI_ANOMALY_DETECTED, 15000, "10.0.0.6"),
      Event(AI_ANOMALY_DETECTED, 3000, "10.0.0.6"),
      Event(ai_anomaly, 20004, "10.0.0.6") }
Sources == {e.source_ip : e \in Events}
\* The alert submitted in the longer run.
LongRunEvents == {Event(AI_ANOMALY_DETECTED, 20004, "10.0.0.5")}
Drifts == {0, 1}

(***************************************************************************)
(* Data model.                                                             *)
(***************************************************************************)
Contract(name, act, trigger, threshold, cooldown) ==
    [name |-> name, action |-> act, trigger |-> trigger,
     threshold |-> threshold, cooldown |-> cooldown,
     enabled |-> TRUE, last_triggered |-> 0]

ExecutedAction(contract_name, act, timestamp, details) ==
    [contract_name |-> contract_name, action |-> act,
     timestamp |-> timestamp, details |-> details]

\* The contracts __init__ installs.
DefaultContracts ==
    << Contract("Auto-Block High Threat", "BLOCK_IP", "HIGH_CONFIDENCE", 15000, 120),
       Contract("Rate Limit on Anomaly", "RATE_LIMIT", "ANOMALY_DETECTED", 5000, 30),
       Contract("Network Alert Broadcast", "ALERT_NETWORK", "ANOMALY_DETECTED", 0, 10) >>

\* "Default contracts - can be customized": customised lists with short
\* cooldowns, a QUARANTINE action and a REPEATED_OFFENSE trigger.
FastContracts ==
    << Contract("Block Fast", "BLOCK_IP", "HIGH_CONFIDENCE", 15000, 2),
       Contract("Limit Fast", "RATE_LIMIT", "ANOMALY_DETECTED", 5000, 1) >>

QuarantineContracts ==
    << Contract("Quarantine", "QUARANTINE", "ANOMALY_DETECTED", 15000, 0),
       Contract("Repeat Offender", "ALERT_NETWORK", "REPEATED_OFFENSE", 5000, 1) >>

ContractLists == {DefaultContracts, FastContracts, QuarantineContracts}

NoCall == [alert_type |-> <<>>, confidence |-> 0, source_ip |-> "unknown",
           current_time |-> 0]
NoAction == [contract_name |-> "", action |-> "", timestamp |-> 0,
             details |-> [source_ip |-> "unknown", confidence |-> 0,
                          simulated |-> TRUE, message |-> <<>>]]

\* get_status() has not been called.
NoStatus == [total_contracts |-> 0, enabled_contracts |-> 0, blocked_ips |-> <<>>,
             rate_limited_count |-> 0, total_actions_executed |-> 0,
             recent_actions |-> <<>>]

\* The clock may not pass this value (bound of the model): MaxElapsed seconds
\* after construction and, once the rate limits of that period have run
\* out, MaxElapsed seconds again.
TimeLimit ==
    IF clock < StartTime + RateLimitSeconds
    THEN StartTime + MaxElapsed
    ELSE StartTime + RateLimitSeconds + MaxElapsed

(***************************************************************************)
(* Pure helpers of evaluate() and _execute_action().                       *)
(***************************************************************************)
\* `needle in text` on strings.
Contains(text, needle) ==
    \E i \in 1..(Len(text) - Len(needle) + 1) :
        SubSeq(text, i, i + Len(needle) - 1) = needle

\* round(confidence, 4): to the nearest multiple of 1e-4, ties to even.
round4(confidence) ==
    LET q == confidence \div 10
        r == confidence % 10
    IN  IF r < 5 THEN 10 * q
        ELSE IF r > 5 THEN 10 * (q + 1)
        ELSE IF q % 2 = 0 THEN 10 * q ELSE 10 * (q + 1)

\* Mutant of line 124: `<=` for `<`.
in_cooldown_inclusive(contract, current_time) ==
    current_time - contract.last_triggered <= contract.cooldown

\* Line 124: the contract is skipped while this holds.
in_cooldown(contract, current_time) ==
    current_time - contract.last_triggered < contract.cooldown

\* Mutant of line 131: `>=` for `>`.
trigger_matched_inclusive(contract, alert_type, confidence) ==
    IF contract.trigger = "ANOMALY_DETECTED" /\ Contains(alert_type, ANOMALY)
    THEN TRUE
    ELSE IF contract.trigger = "HIGH_CONFIDENCE" /\ confidence >= contract.threshold
    THEN TRUE
    ELSE FALSE

\* Lines 128-132.
trigger_matched(contract, alert_type, confidence) ==
    IF contract.trigger = "ANOMALY_DETECTED" /\ Contains(alert_type, ANOMALY)
    THEN TRUE
    ELSE IF contract.trigger = "HIGH_CONFIDENCE" /\ confidence > contract.threshold
    THEN TRUE
    ELSE FALSE

\* Mutant of line 135: the `confidence >= contract.threshold` gate dropped.
conditions_met_ungated(contract, alert_type, confidence) ==
    trigger_matched(contract, alert_type, confidence)

\* Line 135.
conditions_met(contract, alert_type, confidence) ==
    trigger_matched(contract, alert_type, confidence)
        /\ confidence >= contract.threshold

\* Mutant of lines 120-121: the enabled flag is not looked at.
fires_when_disabled(contract, alert_type, confidence, current_time) ==
    /\ ~in_cooldown(contract, current_time)
    /\ conditions_met(contract, alert_type, confidence)

\* Lines 120-135: the contract reaches line 136.
fires(contract, alert_type, confidence, current_time) ==
    /\ contract.enabled
    /\ ~in_cooldown(contract, current_time)
    /\ conditions_met(contract, alert_type, confidence)

\* Lines 152-156 and the message of each branch.
make_details(contract, source_ip, confidence) ==
    [source_ip |-> source_ip,
     confidence |-> round4(confidence),
     simulated |-> TRUE,
     message |->
        CASE contract.action = "BLOCK_IP" ->
                <<"IP ", source_ip, " added to blocklist">>
          [] contract.action = "RATE_LIMIT" ->
                <<"IP ", source_ip, " rate limited for 5 minutes">>
          [] contract.action = "QUARANTINE" ->
                <<"Traffic from ", source_ip, " quarantined for analysis">>
          [] contract.action = "ALERT_NETWORK" ->
                <<"Alert broadcasted to all peer nodes">>
          [] OTHER -> <<>>]

\* Mutant of lines 158 and 168: the QUARANTINE branch falls into the block.
block_effect_quarantine(contract, source_ip, blocked) ==
    IF contract.action \in {"BLOCK_IP", "QUARANTINE"}
    THEN blocked \cup {source_ip}
    ELSE blocked

\* Mutant of line 159: the source is removed when it is already blocked.
block_effect_toggle(contract, source_ip, blocked) ==
    IF contract.action = "BLOCK_IP"
    THEN IF source_ip \in blocked THEN blocked \ {source_ip}
         ELSE blocked \cup {source_ip}
    ELSE blocked

\* Line 159.
block_effect(contract, source_ip, blocked) ==
    IF contract.action = "BLOCK_IP" THEN blocked \cup {source_ip} ELSE blocked

\* Line 164; `now` is the value time.time() returns there.
rate_limit_effect(contract, source_ip, limited, now) ==
    IF contract.action = "RATE_LIMIT"
    THEN [s \in DOMAIN limited \cup {source_ip} |->
            IF s = source_ip THEN now + RateLimitSeconds ELSE limited[s]]
    ELSE limited

\* Lines 176-181; `now` is the value time.time() returns at line 179.
make_record(contract, source_ip, confidence, now) ==
    ExecutedAction(contract.name, contract.action, now,
                   make_details(contract, source_ip, confidence))

\* Line 137.
stamp(cs, i, current_time) ==
    [cs EXCEPT ![i].last_triggered = current_time]

(***************************************************************************)
(* evaluate() run to completion by one caller.  The loop state carries the *)
(* engine fields and the local list `executed`.  current_time is the clock *)
(* read at line 117; `now` is what the later reads of the call (lines 164  *)
(* and 179) return.                                                        *)
(***************************************************************************)
\* Mutant of line 139: insert(0, action) for append(action).
fire_contract_prepend(st, i, source_ip, confidence, current_time, now) ==
    LET contract == st.contracts[i]
        record == make_record(contract, source_ip, confidence, now)
    IN  [contracts |-> stamp(st.contracts, i, current_time),
         action_history |-> <<record>> \o st.action_history,
         blocked_ips |-> block_effect(contract, source_ip, st.blocked_ips),
         rate_limited |-> rate_limit_effect(contract, source_ip, st.rate_limited, now),
         executed |-> Append(st.executed, record)]

\* Mutant of line 137: last_triggered = time.time(), a later read of the clock.
fire_contract_stamp_now(st, i, source_ip, confidence, current_time, now) ==
    LET contract == st.contracts[i]
        record == make_record(contract, source_ip, confidence, now)
    IN  [contracts |-> stamp(st.contracts, i, now),
         action_history |-> Append(st.action_history, record),
         blocked_ips |-> block_effect(contract, source_ip, st.blocked_ips),
         rate_limited |-> rate_limit_effect(contract, source_ip, st.rate_limited, now),
         executed |-> Append(st.executed, record)]

fire_contract(st, i, source_ip, confidence, current_time, now) ==
    LET contract == st.contracts[i]
        record == make_record(contract, source_ip, confidence, now)
    IN  [contracts |-> stamp(st.contracts, i, current_time),
         action_history |-> Append(st.action_history, record),
         blocked_ips |-> block_effect(contract, source_ip, st.blocked_ips),
         rate_limited |-> rate_limit_effect(contract, source_ip, st.rate_limited, now),
         executed |-> Append(st.executed, record)]

\* Mutant of line 121: `break` for `continue`.
RECURSIVE evaluate_loop_break(_, _, _, _, _, _, _)
evaluate_loop_break(i, st, alert_type, confidence, source_ip, current_time, now) ==
    IF i > Len(st.contracts) THEN st
    ELSE IF ~st.contracts[i].enabled THEN st
    ELSE IF fires(st.contracts[i], alert_type, confidence, current_time)
    THEN evaluate_loop_break(i + 1,
            fire_contract(st, i, source_ip, confidence, current_time, now),
            alert_type, confidence, source_ip, current_time, now)
    ELSE evaluate_loop_break(i + 1, st, alert_type, confidence, source_ip,
                             current_time, now)

\* Mutant of lines 136-139: the loop is left after the first contract fired.
RECURSIVE evaluate_loop_first_only(_, _, _, _, _, _, _)
evaluate_loop_first_only(i, st, alert_type, confidence, source_ip, current_time, now) ==
    IF i > Len(st.contracts) THEN st
    ELSE IF fires(st.contracts[i], alert_type, confidence, current_time)
    THEN fire_contract(st, i, source_ip, confidence, current_time, now)
    ELSE evaluate_loop_first_only(i + 1, st, alert_type, confidence, source_ip,
                                  current_time, now)

RECURSIVE evaluate_loop(_, _, _, _, _, _, _)
evaluate_loop(i, st, alert_type, confidence, source_ip, current_time, now) ==
    IF i > Len(st.contracts) THEN st
    ELSE IF fires(st.contracts[i], alert_type, confidence, current_time)
    THEN evaluate_loop(i + 1,
            fire_contract(st, i, source_ip, confidence, current_time, now),
            alert_type, confidence, source_ip, current_time, now)
    ELSE evaluate_loop(i + 1, st, alert_type, confidence, source_ip, current_time, now)

evaluate_result(alert_type, confidence, source_ip, current_time, now) ==
    evaluate_loop(1,
        [contracts |-> contracts, action_history |-> action_history,
         blocked_ips |-> blocked_ips, rate_limited |-> rate_limited,
         executed |-> <<>>],
        alert_type, confidence, source_ip, current_time, now)

AllIdle == \A t \in Threads : pc[t] = "idle"

(***************************************************************************)
(* Actions of the sequential program.                                      *)
(***************************************************************************)
Init ==
    /\ contracts \in ContractLists
    /\ action_history = <<>>
    /\ blocked_ips = {}
    /\ rate_limited = <<>>
    /\ clock = StartTime
    /\ pc = [t \in Threads |-> "idle"]
    /\ call = [t \in Threads |-> NoCall]
    /\ idx = [t \in Threads |-> 0]
    /\ executed = [t \in Threads |-> <<>>]
    /\ action = [t \in Threads |-> NoAction]
    /\ status = NoStatus

\* evaluate(alert_type, confidence, source_ip).  The clock stands at `clock`
\* when line 117 reads it and has advanced by adv when _execute_action reads
\* it again; it advances only if a contract fires (otherwise Tick covers it).
evaluate_upto(t, alert_type, confidence, source_ip, adv, bound) ==
    LET st == evaluate_result(alert_type, confidence, source_ip, clock, clock + adv)
    IN  /\ AllIdle
        /\ Len(st.action_history) <= bound
        /\ clock + adv <= TimeLimit
        /\ contracts' = st.contracts
        /\ action_history' = st.action_history
        /\ blocked_ips' = st.blocked_ips
        /\ rate_limited' = st.rate_limited
        /\ clock' = IF st.executed = <<>> THEN clock ELSE clock + adv
        /\ call' = [call EXCEPT ![t] =
                [alert_type |-> alert_type, confidence |-> confidence,
                 source_ip |-> source_ip, current_time |-> clock]]
        /\ executed' = [executed EXCEPT ![t] = st.executed]
        /\ status' = NoStatus
        /\ UNCHANGED <<pc, idx, action>>

evaluate(t, alert_type, confidence, source_ip, adv) ==
    evaluate_upto(t, alert_type, confidence, source_ip, adv, MaxHistory)

\* contract.enabled = b, assigned by the owner of the engine.  (As every
\* operation but get_status(), it finds the dict of an earlier get_status()
\* call dropped by its caller.)
set_enabled(i, b) ==
    /\ AllIdle
    /\ contracts[i].enabled # b
    /\ contracts' = [contracts EXCEPT ![i].enabled = b]
    /\ status' = NoStatus
    /\ UNCHANGED <<action_history, blocked_ips, rate_limited, clock,
                   pc, call, idx, executed, action>>

\* Time passes.
Tick ==
    /\ clock < TimeLimit
    /\ clock' = clock + 1
    /\ status' = NoStatus
    /\ UNCHANGED <<engine, pc, call, idx, executed, action>>

Evaluate ==
    \E e \in Events, adv \in Drifts :
        evaluate(MainThread, e.alert_type, e.confidence, e.source_ip, adv)

SetEnabled ==
    \E i \in 1..Len(contracts), b \in BOOLEAN : set_enabled(i, b)

Next == Evaluate \/ SetEnabled \/ Tick

Spec == Init /\ [][Next]_vars

(***************************************************************************)
(* get_status(), and the engine observed over a longer run: more calls,    *)
(* and a clock that passes the limit_until of the rate limits.             *)
(***************************************************************************)
\* Mutant of line 198: [:5] for [-5:].
first_n(seq, n) ==
    IF Len(seq) <= n THEN seq ELSE SubSeq(seq, 1, n)

\* seq[-n:]
last_n(seq, n) ==
    IF Len(seq) <= n THEN seq ELSE SubSeq(seq, Len(seq) - n + 1, Len(seq))

\* Lines 192-197: the dict made of one record.
recent_action(a) ==
    [contract |-> a.contract_name, action |-> a.action,
     time |-> a.timestamp, details |-> a.details]

\* list(S) of a set: its members, each once, in the order the set yields them.
Listings(S) ==
    {l \in [1..Cardinality(S) -> S] :
        \A i, j \in 1..Cardinality(S) : l[i] = l[j] => i = j}

\* Lines 185-200: the dict returned, `blocked` being list(self.blocked_ips).
status_dict(blocked) ==
    [total_contracts |-> Len(contracts),
     enabled_contracts |->
        Cardinality({i \in 1..Len(contracts) : contracts[i].enabled}),
     blocked_ips |-> blocked,
     rate_limited_count |-> Cardinality(DOMAIN rate_limited),
     total_actions_executed |-> Len(action_history),
     recent_actions |->
        [k \in 1..Len(last_n(action_history, RecentActions)) |->
            recent_action(last_n(action_history, RecentActions)[k])]]

\* Mutant of line 189: the entries that have run out are deleted before
\* they are counted.
get_status_expire(blocked) ==
    /\ AllIdle
    /\ rate_limited' = [s \in {x \in DOMAIN rate_limited : rate_limited[x] > clock}
                            |-> rate_limited[s]]
    /\ status' = [status_dict(blocked) EXCEPT
                    !.rate_limited_count = Cardinality(DOMAIN rate_limited')]
    /\ UNCHANGED <<contracts, action_history, blocked_ips, clock,
                   pc, call, idx, executed, action>>

\* get_status().
get_status(blocked) ==
    /\ AllIdle
    /\ status' = status_dict(blocked)
    /\ UNCHANGED <<engine, clock, pc, call, idx, executed, action>>

GetStatus == \E blocked \in Listings(blocked_ips) : get_status(blocked)

\* Time passes until the rate limits set so far have run out.
Sleep ==
    /\ clock < StartTime + RateLimitSeconds
    /\ clock' = clock + RateLimitSeconds
    /\ status' = NoStatus
    /\ UNCHANGED <<engine, pc, call, idx, executed, action>>

\* evaluate() in the longer run: the clock does not advance inside a call.
EvaluateLong ==
    \E e \in LongRunEvents :
        evaluate_upto(MainThread, e.alert_type, e.confidence, e.source_ip, 0,
                      MaxRecorded)

NextStatus == EvaluateLong \/ GetStatus \/ SetEnabled \/ Tick \/ Sleep

SpecStatus == Init /\ [][NextStatus]_vars

(***************************************************************************)
(* evaluate() statement by statement, for threads that call it             *)
(* concurrently.  The engine takes no lock: a thread switch can fall       *)
(* between any two of these steps, and the clock can advance between them. *)
(***************************************************************************)
\* Lines 116-117: the call starts, current_time is read.  (Bound: no new
\* call once the history and the calls under way reach MaxHistory.)
Call(t, e) ==
    /\ pc[t] = "idle"
    /\ Len(action_history) + Cardinality({u \in Threads : pc[u] # "idle"}) < MaxHistory
    /\ call' = [call EXCEPT ![t] =
            [alert_type |-> e.alert_type, confidence |-> e.confidence,
             source_ip |-> e.source_ip, current_time |-> clock]]
    /\ executed' = [executed EXCEPT ![t] = <<>>]
    /\ idx' = [idx EXCEPT ![t] = 1]
    /\ action' = [action EXCEPT ![t] = NoAction]
    /\ pc' = [pc EXCEPT ![t] = "check"]
    /\ UNCHANGED <<engine, clock, status>>

\* Lines 119-135: the next contract of the list is skipped unless it is
\* enabled, off cooldown and matching.  (One step: the enabled flag is not
\* written while calls are under way, so only last_triggered is a shared read.)
CheckContract(t) ==
    /\ pc[t] = "check"
    /\ idx[t] <= Len(contracts)
    /\ IF fires(contracts[idx[t]], call[t].alert_type, call[t].confidence,
                call[t].current_time)
       THEN /\ pc' = [pc EXCEPT ![t] = "execute"]
            /\ idx' = idx
       ELSE /\ pc' = pc
            /\ idx' = [idx EXCEPT ![t] = idx[t] + 1]
    /\ UNCHANGED <<engine, clock, call, executed, action, status>>

\* Lines 152-174: _execute_action builds the details and performs the side effect.
ExecuteAction(t) ==
    /\ pc[t] = "execute"
    /\ blocked_ips' = block_effect(contracts[idx[t]], call[t].source_ip, blocked_ips)
    /\ rate_limited' = rate_limit_effect(contracts[idx[t]], call[t].source_ip,
                                         rate_limited, clock)
    /\ action' = [action EXCEPT ![t] = [NoAction EXCEPT !.details =
            make_details(contracts[idx[t]], call[t].source_ip, call[t].confidence)]]
    /\ pc' = [pc EXCEPT ![t] = "record"]
    /\ UNCHANGED <<contracts, action_history, clock, call, idx, executed, status>>

\* Lines 176-181: the record is built, its timestamp read from the clock.
MakeRecord(t) ==
    /\ pc[t] = "record"
    /\ action' = [action EXCEPT ![t] =
            make_record(contracts[idx[t]], call[t].source_ip, call[t].confidence, clock)]
    /\ pc' = [pc EXCEPT ![t] = "stamp"]
    /\ UNCHANGED <<engine, clock, call, idx, executed, status>>

\* Line 137.
Stamp(t) ==
    /\ pc[t] = "stamp"
    /\ contracts' = stamp(contracts, idx[t], call[t].current_time)
    /\ pc' = [pc EXCEPT ![t] = "append"]
    /\ UNCHANGED <<action_history, blocked_ips, rate_limited, clock,
                   call, idx, executed, action, status>>

\* Mutant of line 139: insert(0, action) for append(action).
AppendAction_prepend(t) ==
    /\ pc[t] = "append"
    /\ executed' = [executed EXCEPT ![t] = Append(executed[t], action[t])]
    /\ action_history' = <<action[t]>> \o action_history
    /\ idx' = [idx EXCEPT ![t] = idx[t] + 1]
    /\ pc' = [pc EXCEPT ![t] = "check"]
    /\ UNCHANGED <<contracts, blocked_ips, rate_limited, clock, call, action, status>>

\* Lines 138-139, and on to the next contract.
AppendAction(t) ==
    /\ pc[t] = "append"
    /\ executed' = [executed EXCEPT ![t] = Append(executed[t], action[t])]
    /\ action_history' = Append(action_history, action[t])
    /\ idx' = [idx EXCEPT ![t] = idx[t] + 1]
    /\ pc' = [pc EXCEPT ![t] = "check"]
    /\ UNCHANGED <<contracts, blocked_ips, rate_limited, clock, call, action, status>>

\* Line 141: the list is exhausted, `executed` is returned.
Return(t) ==
    /\ pc[t] = "check"
    /\ idx[t] > Len(contracts)
    /\ pc' = [pc EXCEPT ![t] = "idle"]
    /\ UNCHANGED <<engine, clock, call, idx, executed, action, status>>

ThreadCall == \E t \in Threads, e \in Events : Call(t, e)
ThreadCheckContract == \E t \in Threads : CheckContract(t)
ThreadExecuteAction == \E t \in Threads : ExecuteAction(t)
ThreadMakeRecord == \E t \in Threads : MakeRecord(t)
ThreadStamp == \E t \in Threads : Stamp(t)
ThreadAppendAction == \E t \in Threads : AppendAction(t)
ThreadReturn == \E t \in Threads : Return(t)

NextConc ==
    \/ ThreadCall
    \/ ThreadCheckContract
    \/ ThreadExecuteAction
    \/ ThreadMakeRecord
    \/ ThreadStamp
    \/ ThreadAppendAction
    \/ ThreadReturn
    \/ Tick

SpecConc == Init /\ [][NextConc]_vars

(***************************************************************************)
(* Claim helpers, stated from the specification's wording and independent  *)
(* of the operators above.                                                 *)
(***************************************************************************)
\* Number of records of the contract called `name` in a sequence of records.
RecordsOf(records, name) ==
    Cardinality({k \in 1..Len(records) : records[k].contract_name = name})

\* The alert kind contains the substring "ANOMALY".
MentionsAnomaly(alert_type) ==
    \E i \in 0..Len(alert_type) :
        /\ i + 7 <= Len(alert_type)
        /\ alert_type[i + 1] = "A" /\ alert_type[i + 2] = "N"
        /\ alert_type[i + 3] = "O" /\ alert_type[i + 4] = "M"
        /\ alert_type[i + 5] = "A" /\ alert_type[i + 6] = "L"
        /\ alert_type[i + 7] = "Y"

\* The trigger-matching predicate of the specification (section 4.2, steps 3-4).
Qualifies(c, e) ==
    \/ /\ c.trigger = "ANOMALY_DETECTED"
       /\ MentionsAnomaly(e.alert_type)
       /\ e.confidence >= c.threshold
    \/ /\ c.trigger = "HIGH_CONFIDENCE"
       /\ e.confidence > c.threshold

\* This step is an evaluate() call of the main thread; call' holds its event.
EvalStep ==
    \E adv \in Drifts :
        evaluate(MainThread, call'[MainThread].alert_type,
                 call'[MainThread].confidence, call'[MainThread].source_ip, adv)

\* The event and the returned list of that call.
ThisCall == call'[MainThread]
Returned == executed'[MainThread]

(***************************************************************************)
(* C1: after a rule fired at time T (last_triggered = T), an evaluate()    *)
(* call at a time before T + cooldown produces no record for it, and a     *)
(* call at exactly T + cooldown with a qualifying event, the rule enabled, *)
(* produces exactly one.                                                   *)
(***************************************************************************)
C1_CooldownBoundary ==
    [][EvalStep =>
        \A i \in 1..Len(contracts) :
            LET c == contracts[i]
                n == RecordsOf(Returned, c.name)
            IN  c.last_triggered > 0 =>
                  /\ (clock < c.last_triggered + c.cooldown => n = 0)
                  /\ (clock = c.last_triggered + c.cooldown /\ c.enabled
                        /\ Qualifies(c, ThisCall) => n = 1)]_vars

\* A rule with cooldown 2 fired at construction time and again exactly 2 later.
C1_Witness ==
    \E i \in 1..Len(contracts) :
        /\ contracts[i].cooldown = 2
        /\ RecordsOf(action_history, contracts[i].name) = 2
        /\ contracts[i].last_triggered = StartTime + 2
        /\ call[MainThread].current_time = StartTime + 2
        /\ RecordsOf(executed[MainThread], contracts[i].name) = 1

(***************************************************************************)
(* C2: evaluate() produces a record for a rule only if, when it is called, *)
(* the rule is enabled, now - last_triggered >= cooldown and the trigger   *)
(* predicate holds for the event; and only evaluate() produces records.    *)
(***************************************************************************)
C2_FiringOnlyWhenReady ==
    [][/\ action_history' # action_history => EvalStep
       /\ EvalStep =>
            \A k \in 1..Len(Returned) :
                \E i \in 1..Len(contracts) :
                    /\ contracts[i].name = Returned[k].contract_name
                    /\ contracts[i].enabled
                    /\ clock - contracts[i].last_triggered >= contracts[i].cooldown
                    /\ Qualifies(contracts[i], ThisCall)]_vars

\* A call fired a rule that had fired before, once its cooldown had elapsed.
C2_Witness ==
    /\ Len(executed[MainThread]) = 1
    /\ Len(action_history) = 2
    /\ action_history[1].contract_name = action_history[2].contract_name
    /\ action_history[2] = executed[MainThread][1]
    /\ \E i \in 1..Len(contracts) :
          /\ contracts[i].name = action_history[2].contract_name
          /\ contracts[i].cooldown > 0

(***************************************************************************)
(* C5: an event whose confidence is below the threshold of every enabled   *)
(* rule makes evaluate() return the empty sequence and leaves the rules,   *)
(* the blocklist, the rate-limit map and the history unchanged.            *)
(***************************************************************************)
C5_LowConfidenceNoEffect ==
    [][(/\ EvalStep
        /\ \A i \in 1..Len(contracts) :
              contracts[i].enabled => ThisCall.confidence < contracts[i].threshold)
       => /\ Returned = <<>>
          /\ UNCHANGED <<contracts, action_history, blocked_ips, rate_limited>>]_vars

\* Such a call was made while an anomaly rule was enabled and off cooldown,
\* on an engine that had fired before.
C5_Witness ==
    /\ call[MainThread] # NoCall
    /\ executed[MainThread] = <<>>
    /\ action_history # <<>>
    /\ MentionsAnomaly(call[MainThread].alert_type)
    /\ \A i \in 1..Len(contracts) :
          contracts[i].enabled =>
              call[MainThread].confidence < contracts[i].threshold
    /\ \E i \in 1..Len(contracts) :
          /\ contracts[i].enabled
          /\ contracts[i].trigger = "ANOMALY_DETECTED"
          /\ call[MainThread].current_time - contracts[i].last_triggered
                >= contracts[i].cooldown

(***************************************************************************)
(* C6: while a rule is disabled no evaluate() call produces a record for   *)
(* it or changes its last_triggered; disabling or enabling a rule changes  *)
(* only that rule's enabled flag; and with some rule disabled every other  *)
(* enabled rule still fires exactly when it is off cooldown and matching.  *)
(***************************************************************************)
C6_DisabledRuleSuppressed ==
    [][/\ EvalStep =>
            \A i \in 1..Len(contracts) :
                ~contracts[i].enabled =>
                    /\ RecordsOf(Returned, contracts[i].name) = 0
                    /\ contracts'[i] = contracts[i]
                    /\ \A j \in 1..Len(contracts) :
                          contracts[j].enabled =>
                            ( RecordsOf(Returned, contracts[j].name) = 1
                              <=> /\ clock - contracts[j].last_triggered
                                        >= contracts[j].cooldown
                                  /\ Qualifies(contracts[j], ThisCall) )
       /\ \A i \in 1..Len(contracts) :
            contracts'[i].enabled # contracts[i].enabled =>
                /\ contracts' = [contracts EXCEPT ![i].enabled = ~contracts[i].enabled]
                /\ UNCHANGED <<action_history, blocked_ips, rate_limited>>]_vars

\* A disabled rule, off cooldown, saw a qualifying event and stayed silent
\* while a later rule of the list fired on the same event.
C6_Witness ==
    \E i, j \in 1..Len(contracts) :
        /\ i < j
        /\ ~contracts[i].enabled
        /\ contracts[i].cooldown > 0
        /\ Qualifies(contracts[i], call[MainThread])
        /\ call[MainThread].current_time - contracts[i].last_triggered
              >= contracts[i].cooldown
        /\ RecordsOf(executed[MainThread], contracts[i].name) = 0
        /\ RecordsOf(executed[MainThread], contracts[j].name) = 1

(***************************************************************************)
(* C7: an enabled, off-cooldown rule fires in an evaluate() call exactly   *)
(* when: ANOMALY_DETECTED - the alert type contains "ANOMALY" and          *)
(* confidence >= threshold; HIGH_CONFIDENCE - confidence > threshold;      *)
(* REPEATED_OFFENSE - never.                                               *)
(***************************************************************************)
C7_TriggerPredicate ==
    [][EvalStep =>
        \A i \in 1..Len(contracts) :
            LET c == contracts[i]
                fired == RecordsOf(Returned, c.name) >= 1
            IN  (c.enabled /\ clock - c.last_triggered >= c.cooldown) =>
                  /\ c.trigger = "ANOMALY_DETECTED" =>
                        (fired <=> /\ MentionsAnomaly(ThisCall.alert_type)
                                   /\ ThisCall.confidence >= c.threshold)
                  /\ c.trigger = "HIGH_CONFIDENCE" =>
                        (fired <=> ThisCall.confidence > c.threshold)
                  /\ c.trigger = "REPEATED_OFFENSE" => ~fired]_vars

\* Confidence equal to the threshold: the HIGH_CONFIDENCE rule, enabled and
\* never fired, stayed silent while an ANOMALY_DETECTED rule fired.
C7_Witness ==
    \E i, j \in 1..Len(contracts) :
        /\ contracts[i].trigger = "HIGH_CONFIDENCE"
        /\ contracts[i].enabled
        /\ contracts[i].last_triggered = 0
        /\ contracts[i].cooldown <= call[MainThread].current_time
        /\ call[MainThread].confidence = contracts[i].threshold
        /\ RecordsOf(executed[MainThread], contracts[i].name) = 0
        /\ contracts[j].trigger = "ANOMALY_DETECTED"
        /\ RecordsOf(executed[MainThread], contracts[j].name) = 1

(***************************************************************************)
(* C8: an evaluate() call returns exactly one record for every rule that   *)
(* is enabled, off cooldown and matching at the call, in list order; a     *)
(* rule that fires does not keep a later rule from firing.                 *)
(***************************************************************************)
C8_NoEarlyExit ==
    [][EvalStep =>
        LET ready == {i \in 1..Len(contracts) :
                        /\ contracts[i].enabled
                        /\ clock - contracts[i].last_triggered >= contracts[i].cooldown
                        /\ Qualifies(contracts[i], ThisCall)}
        IN  /\ Len(Returned) = Cardinality(ready)
            /\ \A k \in 1..Len(Returned) :
                  \E i \in ready :
                      /\ Returned[k].contract_name = contracts[i].name
                      /\ Cardinality({j \in ready : j < i}) = k - 1]_vars

\* One call fired two rules.
C8_Witness ==
    /\ Len(executed[MainThread]) = 2
    /\ executed[MainThread][1].contract_name # executed[MainThread][2].contract_name
    /\ action_history = executed[MainThread]

(***************************************************************************)
(* C9: the history is append-only and mirrors what evaluate() returns:     *)
(* each call extends it by exactly the returned records, in order, and no  *)
(* other step changes it.                                                  *)
(***************************************************************************)
C9_HistoryAppendOnly ==
    [][IF EvalStep
       THEN action_history' = action_history \o Returned
       ELSE action_history' = action_history]_vars

\* A second firing call: the history holds an earlier record followed by
\* the records just returned.
C9_Witness ==
    /\ executed[MainThread] # <<>>
    /\ Len(action_history) > Len(executed[MainThread])
    /\ action_history[1].timestamp < executed[MainThread][1].timestamp

(***************************************************************************)
(* C10: when a BLOCK_IP rule fires for a source that is already in the     *)
(* blocklist, the blocklist is unchanged and a record is still produced.   *)
(***************************************************************************)
C10_BlockIdempotent ==
    [][EvalStep =>
        \A k \in 1..Len(Returned) :
            (Returned[k].action = "BLOCK_IP"
                /\ Returned[k].details.source_ip \in blocked_ips)
            => /\ blocked_ips' = blocked_ips
               /\ Cardinality(blocked_ips') = Cardinality(blocked_ips)
               /\ Len(action_history') > Len(action_history)]_vars

\* The block rule fired twice for the same source.
C10_Witness ==
    /\ Len(action_history) = 2
    /\ action_history[1].action = "BLOCK_IP"
    /\ action_history[2].action = "BLOCK_IP"
    /\ action_history[1].details.source_ip = action_history[2].details.source_ip
    /\ blocked_ips = {action_history[1].details.source_ip}

(***************************************************************************)
(* C3: when all threads call evaluate() at the same time with the same     *)
(* qualifying event, a rule with cooldown > 0 that was ready and had never *)
(* fired before yields exactly one record across all the calls together.   *)
(***************************************************************************)
\* Number of records of the contract called `name` returned to all threads.
ReturnedToAll(name) ==
    Cardinality({tk \in Threads \X (1..Len(action_history)) :
                    /\ tk[2] <= Len(executed[tk[1]])
                    /\ executed[tk[1]][tk[2]].contract_name = name})

C3_ExactlyOneRecord ==
    (/\ AllIdle
     /\ call[MainThread] # NoCall
     /\ \A t \in Threads : call[t] = call[MainThread])
    => \A i \in 1..Len(contracts) :
          (/\ contracts[i].cooldown > 0
           /\ contracts[i].enabled
           /\ Qualifies(contracts[i], call[MainThread])
           /\ call[MainThread].current_time >= contracts[i].cooldown
           /\ RecordsOf(action_history, contracts[i].name)
                 = ReturnedToAll(contracts[i].name))
          => ReturnedToAll(contracts[i].name) = 1

(***************************************************************************)
(* C4: last_triggered is written at dispatch, before the side effects of   *)
(* the action: whenever a call has performed the side effect of a firing   *)
(* (blocklist or rate-limit write done, record being built or built), the  *)
(* rule's last_triggered already holds the time of that call.              *)
(***************************************************************************)
C4_StampBeforeSideEffects ==
    \A t \in Threads :
        pc[t] \in {"record", "stamp"} =>
            contracts[idx[t]].last_triggered = call[t].current_time

(***************************************************************************)
(* C11: when a RATE_LIMIT rule fires for source s in an evaluate() call,   *)
(* rate_limited[s] becomes exactly now + 300 with now the timestamp that   *)
(* the call stamps into the rule's last_triggered; an earlier expiry of s  *)
(* is overwritten and the entries of the other sources stay as they were.  *)
(***************************************************************************)
C11_RateLimitExpiry ==
    [][EvalStep =>
        \A k \in 1..Len(Returned) :
            Returned[k].action = "RATE_LIMIT" =>
                LET s == Returned[k].details.source_ip
                IN  /\ s \in DOMAIN rate_limited'
                    /\ \A i \in 1..Len(contracts) :
                          contracts[i].name = Returned[k].contract_name =>
                              rate_limited'[s]
                                  = contracts'[i].last_triggered + RateLimitSeconds
                    /\ \A o \in DOMAIN rate_limited \ {s} :
                          /\ o \in DOMAIN rate_limited'
                          /\ rate_limited'[o] = rate_limited[o]]_vars

(***************************************************************************)
(* C12: a firing of a QUARANTINE or ALERT_NETWORK rule leaves the          *)
(* blocklist and the rate-limit map as they were; its only effects are the *)
(* record (returned and appended to the history) and the last_triggered    *)
(* stamp.  The blocklist changes only in a call where a BLOCK_IP rule      *)
(* fires and the rate-limit map only where a RATE_LIMIT rule fires.        *)
(***************************************************************************)
C12_OnlyOwnSideEffects ==
    [][/\ blocked_ips' # blocked_ips =>
            /\ EvalStep
            /\ \E k \in 1..Len(Returned) : Returned[k].action = "BLOCK_IP"
       /\ rate_limited' # rate_limited =>
            /\ EvalStep
            /\ \E k \in 1..Len(Returned) : Returned[k].action = "RATE_LIMIT"
       /\ (/\ EvalStep
           /\ Returned # <<>>
           /\ \A k \in 1..Len(Returned) :
                 Returned[k].action \in {"QUARANTINE", "ALERT_NETWORK"})
          => /\ blocked_ips' = blocked_ips
             /\ rate_limited' = rate_limited
             /\ action_history' = action_history \o Returned
             /\ Len(contracts') = Len(contracts)
             /\ \A i \in 1..Len(contracts) :
                   contracts'[i] =
                       IF RecordsOf(Returned, contracts[i].name) > 0
                       THEN [contracts[i] EXCEPT
                                !.last_triggered = ThisCall.current_time]
                       ELSE contracts[i]]_vars

\* A QUARANTINE rule fired twice and nothing was blocked or rate limited.
C12_Witness ==
    /\ Len(action_history) = 2
    /\ \A k \in 1..2 : action_history[k].action = "QUARANTINE"
    /\ \E i \in 1..Len(contracts) :
          /\ contracts[i].action = "QUARANTINE"
          /\ contracts[i].last_triggered > 0
    /\ blocked_ips = {}
    /\ rate_limited = <<>>

(***************************************************************************)
(* C13: under concurrent evaluate() calls no appended record is lost from  *)
(* the history, and the records a thread appends appear in the history in  *)
(* the same relative order as in the sequence returned to that thread.     *)
(* Every step keeps the history it found as a prefix, and whenever a       *)
(* thread's returned sequence grows by a record, the history grows by that *)
(* same record, at its end, in the same step; hence each returned sequence *)
(* is found in the history, in order.                                      *)
(***************************************************************************)
\* a is found in b, in order: a is a subsequence of b.
RECURSIVE IsSubsequence(_, _)
IsSubsequence(a, b) ==
    IF a = <<>> THEN TRUE
    ELSE IF b = <<>> THEN FALSE
    ELSE IF Head(a) = Head(b) THEN IsSubsequence(Tail(a), Tail(b))
    ELSE IsSubsequence(a, Tail(b))

C13_ConcurrentAppends ==
    /\ [](\A t \in Threads : IsSubsequence(executed[t], action_history))
    /\ [][/\ Len(action_history') >= Len(action_history)
          /\ SubSeq(action_history', 1, Len(action_history)) = action_history
          /\ \A t \in Threads :
                (executed'[t] # executed[t] /\ executed'[t] # <<>>) =>
                    /\ Len(action_history') = Len(action_history) + 1
                    /\ executed'[t] =
                          Append(executed[t],
                                 action_history'[Len(action_history')])]_vars

\* Two calls under way at once, each of which has appended a record.
C13_Witness ==
    /\ \A t \in Threads : pc[t] # "idle" /\ executed[t] # <<>>
    /\ Len(action_history) = 2

(***************************************************************************)
(* C14: get_status() is a pure read: it changes no engine state.  Its      *)
(* snapshot has total_contracts = number of rules, enabled_contracts =     *)
(* number of rules with enabled true, blocked_ips = the members of the     *)
(* blocklist, total_actions_executed = length of the history, and          *)
(* recent_actions = the last min(5, length) records of the history, in     *)
(* the order they were appended.                                           *)
(***************************************************************************)
\* The dict d is the snapshot of the engine as it stands.
IsSnapshot(d) ==
    LET n == IF Len(action_history) < 5 THEN Len(action_history) ELSE 5
    IN  /\ d.total_contracts = Len(contracts)
        /\ d.enabled_contracts = Len(SelectSeq(contracts, LAMBDA c : c.enabled))
        /\ Len(d.blocked_ips) = Cardinality(blocked_ips)
        /\ {d.blocked_ips[k] : k \in 1..Len(d.blocked_ips)} = blocked_ips
        /\ d.total_actions_executed = Len(action_history)
        /\ Len(d.recent_actions) = n
        /\ \A k \in 1..n :
              LET a == action_history[Len(action_history) - n + k]
              IN  /\ d.recent_actions[k].contract = a.contract_name
                  /\ d.recent_actions[k].action = a.action
                  /\ d.recent_actions[k].time = a.timestamp
                  /\ d.recent_actions[k].details = a.details

C14_StatusSnapshot ==
    /\ [](status # NoStatus => IsSnapshot(status))
    /\ [][status' # NoStatus => UNCHANGED <<engine, clock>>]_vars

\* get_status() returned with more than five records in the history, the
\* oldest of which differs from the sixth, a blocked source and a disabled rule.
C14_Witness ==
    /\ status # NoStatus
    /\ Len(action_history) > 5
    /\ action_history[1] # action_history[6]
    /\ blocked_ips # {}
    /\ \E i \in 1..Len(contracts) : ~contracts[i].enabled

(***************************************************************************)
(* C15: the engine never removes a blocklist or rate-limit entry: over     *)
(* evaluate() and get_status() calls the blocklist and the key set of the  *)
(* rate-limit map only grow, also after the limit_until of an entry has    *)
(* passed.                                                                 *)
(***************************************************************************)
C15_EntriesOnlyGrow ==
    [][/\ blocked_ips \subseteq blocked_ips'
       /\ DOMAIN rate_limited \subseteq DOMAIN rate_limited']_vars

\* An entry has run out, evaluate() has fired a rule and get_status() has
\* been called since, and the entry and the blocked source are still there.
C15_Witness ==
    /\ status # NoStatus
    /\ blocked_ips # {}
    /\ \E s \in DOMAIN rate_limited :
          /\ rate_limited[s] <= clock
          /\ \E k \in 1..Len(action_history) :
                action_history[k].timestamp >= rate_limited[s]

(***************************************************************************)
(* C16: the rate-limit count that get_status() reports is the number of    *)
(* active entries: an entry whose limit_until is not later than the time   *)
(* of the get_status() call is not counted.                                *)
(***************************************************************************)
C16_ActiveRateLimitCount ==
    status # NoStatus =>
        status.rate_limited_count =
            Cardinality({s \in DOMAIN rate_limited : rate_limited[s] > clock})

(***************************************************************************)
(* C17: for a rule whose cooldown stays fixed, any two records of the rule *)
(* in the history have timestamps at least that cooldown apart, the clock  *)
(* being non-decreasing and free to advance between the read at the start *)
(* of evaluate() and the read that stamps the record.                      *)
(***************************************************************************)
C17_RecordSpacing ==
    \A i \in 1..Len(contracts) :
        \A k, l \in 1..Len(action_history) :
            (/\ k < l
             /\ action_history[k].contract_name = contracts[i].name
             /\ action_history[l].contract_name = contracts[i].name)
            => action_history[l].timestamp - action_history[k].timestamp
                  >= contracts[i].cooldown

(***************************************************************************)
(* C18: an enabled rule that has never fired (last_triggered = 0) is not   *)
(* gated by its cooldown: the first qualifying event fires it whatever the *)
(* clock shows, also when the clock shows less than the rule's cooldown.   *)
(***************************************************************************)
C18_NeverFiredNotGated ==
    [][EvalStep =>
        \A i \in 1..Len(contracts) :
            (/\ contracts[i].enabled
             /\ contracts[i].last_triggered = 0
             /\ Qualifies(contracts[i], ThisCall))
            => RecordsOf(Returned, contracts[i].name) = 1]_vars

(***************************************************************************)
(* C19: with sequential evaluate() calls and a positive, non-decreasing    *)
(* clock, a rule's last_triggered is 0 exactly when the history holds no   *)
(* record with the rule's name, and otherwise is the start time of the     *)
(* evaluate() call that produced the rule's latest record; it never        *)
(* decreases and never exceeds the clock.  evaluate() changes              *)
(* last_triggered only of the rules it fires, and changes no rule's        *)
(* enabled flag, threshold, cooldown or position.                          *)
(***************************************************************************)
C19_LastTriggered ==
    /\ [](\A i \in 1..Len(contracts) :
            /\ (contracts[i].last_triggered = 0)
                  <=> (RecordsOf(action_history, contracts[i].name) = 0)
            /\ contracts[i].last_triggered <= clock)
    /\ [][/\ Len(contracts') = Len(contracts)
          /\ \A i \in 1..Len(contracts) :
                contracts'[i].last_triggered >= contracts[i].last_triggered
          /\ EvalStep =>
                \A i \in 1..Len(contracts) :
                    contracts'[i] =
                        IF RecordsOf(Returned, contracts[i].name) > 0
                        THEN [contracts[i] EXCEPT !.last_triggered = clock]
                        ELSE contracts[i]]_vars

\* One rule has fired twice, the second time in a call that started after
\* construction and during which the clock advanced; another, enabled, rule
\* has never fired.
C19_Witness ==
    \E i, j \in 1..Len(contracts) :
        /\ contracts[i].enabled
        /\ contracts[i].last_triggered = 0
        /\ RecordsOf(action_history, contracts[i].name) = 0
        /\ RecordsOf(action_history, contracts[j].name) = 2
        /\ contracts[j].last_triggered > StartTime
        /\ contracts[j].last_triggered < clock
        /\ call[MainThread].current_time = contracts[j].last_triggered

(***************************************************************************)
(* C20: between evaluate() calls on an engine that started empty, the      *)
(* blocklist is the set of the source ids in the BLOCK_IP records of the   *)
(* history, and the key set of the rate-limit map is the set of the source *)
(* ids in the RATE_LIMIT records of the history.                           *)
(***************************************************************************)
\* The source ids in the history records of the given action.
SourcesOf(act) ==
    {action_history[k].details.source_ip :
        k \in {n \in 1..Len(action_history) : action_history[n].action = act}}

C20_SideEffectsMatchHistory ==
    /\ blocked_ips = SourcesOf("BLOCK_IP")
    /\ DOMAIN rate_limited = SourcesOf("RATE_LIMIT")

\* One source is blocked and another one is rate limited.
C20_Witness ==
    /\ blocked_ips # {}
    /\ DOMAIN rate_limited # {}
    /\ DOMAIN rate_limited # blocked_ips

====
